---- MODULE Spec2Model ----
(***************************************************************************)
(* Model of StaticSiteBuilderWebpackPlugin (src/src/index.ts): the page    *)
(* rendering dispatch renderPaths, the artifact naming pathToAssetName and *)
(* the crawl link resolution relativePathsFromHtml.                        *)
(*                                                                         *)
(* A JavaScript string is a sequence of one-character strings.  The        *)
(* library calls of the source (path.join, url.parse, url.resolve) are     *)
(* modelled by what they compute on such sequences, for the POSIX flavour  *)
(* of path and the legacy url module of Node.                              *)
(***************************************************************************)
EXTENDS Integers, Sequences, FiniteSets, TLC

VARIABLES
    options,    \* this.options (crawl, paths) and the renderer under test
    assets,     \* compilation.assets: artifact name -> content
    errors,     \* compilation.errors
    calls,      \* one entry per element of a path list handed to renderPaths
    batches,    \* one entry per renderPaths invocation
    assigned,   \* history: the artifact names assigned, in order of assignment
    pc,         \* position of the optimizeAssets hook of apply
    arg,        \* input of the function applied on its own
    res         \* results of the function applied on its own

vars == <<options, assets, errors, calls, batches, assigned, pc, arg, res>>

-----------------------------------------------------------------------------
(* Strings *)

StartsWith(s, pre) ==
    /\ Len(s) >= Len(pre)
    /\ SubSeq(s, 1, Len(pre)) = pre

EndsWith(s, suf) ==
    /\ Len(s) >= Len(suf)
    /\ SubSeq(s, Len(s) - Len(suf) + 1, Len(s)) = suf

\* String.prototype.indexOf for a single character, 1-based; 0 when absent.
IndexOfChar(s, ch) ==
    IF \E i \in 1..Len(s) : s[i] = ch
    THEN CHOOSE i \in 1..Len(s) : s[i] = ch /\ \A j \in 1..(i - 1) : s[j] # ch
    ELSE 0

\* s.slice(i) with a 1-based start.
SliceFrom(s, i) == SubSeq(s, i, Len(s))

ToLowerChar(c) ==
    CASE c = "H" -> "h"
      [] c = "T" -> "t"
      [] c = "M" -> "m"
      [] c = "L" -> "l"
      [] c = "A" -> "a"
      [] OTHER -> c

ToLower(s) == [i \in 1..Len(s) |-> ToLowerChar(s[i])]

\* String.prototype.split on a single character.
RECURSIVE Split(_, _)
Split(s, sep) ==
    LET i == IndexOfChar(s, sep) IN
    IF i = 0 THEN <<s>>
    ELSE <<SubSeq(s, 1, i - 1)>> \o Split(SliceFrom(s, i + 1), sep)

\* Array.prototype.join with a single character.
RECURSIVE JoinWith(_, _)
JoinWith(segs, sep) ==
    IF Len(segs) = 0 THEN <<>>
    ELSE IF Len(segs) = 1 THEN segs[1]
    ELSE segs[1] \o <<sep>> \o JoinWith(Tail(segs), sep)

\* The single element of a singleton set.  Binding a value as x \in {e}
\* evaluates e once, where a LET would evaluate it again at every use.
Only(S) == CHOOSE v \in S : TRUE

\* All sequences over S of length at most n.
SeqsUpTo(S, n) == UNION {[1..k -> S] : k \in 0..n}

-----------------------------------------------------------------------------
(* path.join of Node, POSIX flavour *)

\* normalizeString: drops empty and "." segments, resolves ".." against the
\* segment before it; above the root ".." is dropped, in a relative path kept.
RECURSIVE NormalizeSegments(_, _, _)
NormalizeSegments(segs, acc, allowAboveRoot) ==
    IF Len(segs) = 0 THEN acc
    ELSE
        LET seg == segs[1]
            rest == Tail(segs)
        IN  IF seg = <<>> \/ seg = <<".">>
            THEN NormalizeSegments(rest, acc, allowAboveRoot)
            ELSE IF seg = <<".", ".">>
            THEN IF Len(acc) > 0 /\ acc[Len(acc)] # <<".", ".">>
                 THEN NormalizeSegments(rest, SubSeq(acc, 1, Len(acc) - 1), allowAboveRoot)
                 ELSE IF allowAboveRoot
                 THEN NormalizeSegments(rest, Append(acc, seg), allowAboveRoot)
                 ELSE NormalizeSegments(rest, acc, allowAboveRoot)
            ELSE NormalizeSegments(rest, Append(acc, seg), allowAboveRoot)

PathNormalize(p) ==
    IF Len(p) = 0 THEN <<".">>
    ELSE
        LET isAbsolute == p[1] = "/"
            trailing == p[Len(p)] = "/"
            body == JoinWith(NormalizeSegments(Split(p, "/"), <<>>, ~isAbsolute), "/")
            body1 == IF Len(body) = 0 /\ ~isAbsolute THEN <<".">> ELSE body
            body2 == IF Len(body1) > 0 /\ trailing THEN body1 \o <<"/">> ELSE body1
        IN  IF isAbsolute THEN <<"/">> \o body2 ELSE body2

PathConcat(a, b) == a \o b

\* path.join(a, b): the non-empty arguments joined by "/" and normalized.
PathJoin(a, b) ==
    LET joined == IF Len(a) = 0 THEN b
                  ELSE IF Len(b) = 0 THEN a
                  ELSE a \o <<"/">> \o b
    IN  IF Len(joined) = 0 THEN <<".">> ELSE PathNormalize(joined)

-----------------------------------------------------------------------------
(* pathToAssetName *)

IndexHtml == <<"i", "n", "d", "e", "x", ".", "h", "t", "m", "l">>

IsSeparator(c) == c \in {"/", "\\"}

\* outputPath.replace(/^(\/|\\)/, ''): the pattern is anchored and not global,
\* so one separator at most is removed.
StripLeadingSeparator(outputPath) ==
    IF Len(outputPath) > 0 /\ IsSeparator(outputPath[1])
    THEN Tail(outputPath)
    ELSE outputPath

\* /\.html?$/i.test(name)
HasHtmlExtension(name) ==
    \/ EndsWith(ToLower(name), <<".", "h", "t", "m">>)
    \/ EndsWith(ToLower(name), <<".", "h", "t", "m", "l">>)

\* the test of line 362 and the join of line 363
NameWithIndex(stripped) ==
    IF ~HasHtmlExtension(stripped) THEN PathJoin(stripped, IndexHtml) ELSE stripped

pathToAssetName(outputPath) == NameWithIndex(StripLeadingSeparator(outputPath))

-----------------------------------------------------------------------------
(* url.parse and url.resolve of Node (legacy url module), for strings       *)
(* without white space and without "@"                                      *)

IsProtocolChar(c) == c \in {"a", "b", "c", "h", "t", "m", "l", "q", "x", ".", "+", "-"}

\* Length of the match of /^[a-z0-9.+-]+:/i, 0 when there is none.
ProtocolLength(s) ==
    LET i == IndexOfChar(s, ":") IN
    IF i > 1 /\ \A j \in 1..(i - 1) : IsProtocolChar(ToLowerChar(s[j])) THEN i ELSE 0

\* First index of a character of S, Len(s) + 1 when there is none.
IndexOfAny(s, S) ==
    IF \E i \in 1..Len(s) : s[i] \in S
    THEN CHOOSE i \in 1..Len(s) : s[i] \in S /\ \A j \in 1..(i - 1) : s[j] \notin S
    ELSE Len(s) + 1

\* Backslashes before the query string or fragment are read as forward slashes.
SlashesForBackslashes(s) ==
    LET q == IndexOfAny(s, {"?", "#"}) IN
    [i \in 1..Len(s) |-> IF s[i] = "\\" /\ i < q THEN "/" ELSE s[i]]

\* First index of a character ending the host.
HostEnd(s) == IndexOfAny(s, {"/", "?", "#"})

\* The part of s before the first ch (all of s when there is none), and the
\* part from the first ch on (empty when there is none).
BeforeChar(s, ch) ==
    IF IndexOfChar(s, ch) > 0 THEN SubSeq(s, 1, IndexOfChar(s, ch) - 1) ELSE s

FromChar(s, ch) ==
    IF IndexOfChar(s, ch) > 0 THEN SliceFrom(s, IndexOfChar(s, ch)) ELSE <<>>

\* The tail of url.parse: fragment, query string and pathname of what is left
\* after protocol and host.  An absent component is <<>>; path is null
\* (hasPath is FALSE) unless pathname or search is set.
urlParseRest(protocol, slashes, host, rest) ==
    [protocol |-> protocol,
     slashes  |-> slashes,
     host     |-> host,
     hash     |-> FromChar(rest, "#"),
     search   |-> FromChar(BeforeChar(rest, "#"), "?"),
     pathname |-> BeforeChar(BeforeChar(rest, "#"), "?"),
     hasPath  |-> Len(BeforeChar(rest, "#")) > 0,
     path     |-> BeforeChar(rest, "#")]

\* The host of url.parse: after "//" it runs up to the next "/", "?" or "#".
urlParseHost(protocol, slashes, rest) ==
    IF slashes
    THEN urlParseRest(protocol, TRUE, ToLower(SubSeq(rest, 3, HostEnd(SliceFrom(rest, 3)) + 1)),
                      SliceFrom(rest, HostEnd(SliceFrom(rest, 3)) + 2))
    ELSE urlParseRest(protocol, FALSE, <<>>, rest)

\* Protocol and "//" of url.parse, on s with its backslashes replaced.
urlParseProtocol(rest, plen, slashesDenoteHost) ==
    urlParseHost(ToLower(SubSeq(rest, 1, plen)),
                 (slashesDenoteHost \/ plen > 0)
                    /\ StartsWith(SliceFrom(rest, plen + 1), <<"/", "/">>),
                 SliceFrom(rest, plen + 1))

\* url.parse(s, false, slashesDenoteHost)
urlParse(s, slashesDenoteHost) ==
    Only({urlParseProtocol(rest, ProtocolLength(rest), slashesDenoteHost) :
            rest \in {SlashesForBackslashes(s)}})

\* The loop of resolveObject that removes "." and ".." segments, last to first.
RECURSIVE RemoveDots(_, _, _, _)
RemoveDots(segs, i, up, acc) ==
    IF i = 0 THEN [segs |-> acc, up |-> up]
    ELSE IF segs[i] = <<".">> THEN RemoveDots(segs, i - 1, up, acc)
    ELSE IF segs[i] = <<".", ".">> THEN RemoveDots(segs, i - 1, up + 1, acc)
    ELSE IF up > 0 THEN RemoveDots(segs, i - 1, up - 1, acc)
    ELSE RemoveDots(segs, i - 1, up, <<segs[i]>> \o acc)

RECURSIVE UpSegments(_)
UpSegments(n) == IF n = 0 THEN <<>> ELSE <<<<".", ".">>>> \o UpSegments(n - 1)

\* A relative result gets back the ".." that went above its start.
RestoreUps(rd, mustEndAbs) ==
    IF ~mustEndAbs THEN UpSegments(rd.up) \o rd.segs ELSE rd.segs

IsAbsoluteSegments(segs) ==
    Len(segs) > 0 /\ (segs[1] = <<>> \/ segs[1][1] = "/")

LeadingEmpty(segs, mustEndAbs) ==
    IF mustEndAbs /\ ~IsAbsoluteSegments(segs) THEN <<<<>>>> \o segs ELSE segs

TrailingEmpty(segs, hasTrailingSlash) ==
    IF hasTrailingSlash /\ ~EndsWith(JoinWith(segs, "/"), <<"/">>)
    THEN Append(segs, <<>>) ELSE segs

HasTrailingSlash(segs, hasHost) ==
    LET last == segs[Len(segs)] IN
    \/ (hasHost \/ Len(segs) > 1) /\ (last = <<".">> \/ last = <<".", ".">>)
    \/ last = <<>>

\* The pathname resolveObject computes from the merged segments.
ResolvedPathname(merged, mustEndAbs, hasHost) ==
    Only({JoinWith(LeadingEmpty(kept, mustEndAbs \/ (hasHost /\ Len(kept) > 0)), "/") :
        kept \in {TrailingEmpty(LeadingEmpty(RestoreUps(rd, mustEndAbs), mustEndAbs),
                                HasTrailingSlash(merged, hasHost)) :
            rd \in {RemoveDots(merged, Len(merged), 0, <<>>)}}})

\* Url.prototype.format for a url without protocol, auth and port.
urlFormat(slashes, host, pathname, search) ==
    (IF slashes THEN <<"/", "/">> \o host ELSE <<>>)
        \o (IF slashes /\ Len(pathname) > 0 /\ pathname[1] # "/" THEN <<"/">> ELSE <<>>)
        \o pathname \o search

PathSegments(pathname) == IF Len(pathname) > 0 THEN Split(pathname, "/") ELSE <<>>

DropLast(segs) == IF Len(segs) > 0 THEN SubSeq(segs, 1, Len(segs) - 1) ELSE <<>>

\* resolveObject for a source src without protocol and a reference rel that
\* has neither protocol nor host.
urlResolveObject(src, rel) ==
    IF Len(rel.pathname) > 0
    THEN Only({urlFormat(src.slashes, src.host, pathname, rel.search) :
            pathname \in {ResolvedPathname(merged,
                            (Len(src.pathname) > 0 /\ src.pathname[1] = "/") \/ Len(src.host) > 0,
                            Len(src.host) > 0) :
                merged \in {DropLast(PathSegments(src.pathname)) \o PathSegments(rel.pathname)}}})
    ELSE \* a reference that is a query string alone replaces the query
         urlFormat(src.slashes, src.host, src.pathname, rel.search)

\* url.resolve(source, relative)
urlResolve(source, relative) ==
    Only({urlResolveObject(src, rel) :
            src \in {urlParse(source, TRUE)}, rel \in {urlParse(relative, TRUE)}})

-----------------------------------------------------------------------------
(* relativePathsFromHtml *)

\* The html handed over by the renderer is represented by what cheerio
\* extracts from it: the href of its <a> tags and the src of its <iframe>
\* tags, in document order, and an opaque text that tells two documents apart.
Html(text, anchors, iframes) == [text |-> text, a |-> anchors, iframe |-> iframes]

Null == [isString |-> FALSE, value |-> <<>>]
StringValue(s) == [isString |-> TRUE, value |-> s]

\* The decision of lines 403-405 on the parsed href.
IsRejectedParse(parsed) == Len(parsed.protocol) > 0 \/ ~parsed.hasPath

\* Lines 403-411 on the parsed href.
resolveParsed(parsed, basePath) ==
    IF IsRejectedParse(parsed) THEN Null
    ELSE IF parsed.path[1] = "/" THEN StringValue(parsed.path)
    ELSE StringValue(urlResolve(basePath, parsed.path))

\* The callback of paths.map at lines 395-413: the crawlable path or null.
resolveHref(href, basePath) ==
    IF StartsWith(href, <<"/", "/">>) THEN Null
    ELSE Only({resolveParsed(parsed, basePath) : parsed \in {urlParse(href, FALSE)}})

RECURSIVE FilterStrings(_)
FilterStrings(vals) ==
    IF Len(vals) = 0 THEN <<>>
    ELSE (IF vals[1].isString THEN <<vals[1].value>> ELSE <<>>) \o FilterStrings(Tail(vals))

relativePathsFromAnchors(source, basePath) ==
    Only({FilterStrings(paths) :
            paths \in {[i \in 1..Len(source.a) |-> resolveHref(source.a[i], basePath)]}})

relativePathsFromHtml(source, basePath) ==
    Only({FilterStrings(paths) :
            paths \in {[i \in 1..Len(hrefs) |-> resolveHref(hrefs[i], basePath)] :
                hrefs \in {source.a \o source.iframe}}})

-----------------------------------------------------------------------------
(* The renderer under test and the configurations of the plugin *)

MaxPaths == 2       \* longest configured list of paths

PathA      == <<"/", "a">>
PathASlash == <<"/", "a", "/">>
PathB      == <<"/", "b">>
PathC      == <<"/", "c">>
PathE      == <<"/", "e", "/">>
PathZ      == <<"/", "z">>
PathSlashSlashA == <<"/", "/", "a">>

StringOutput(html) == [isObject |-> FALSE, value |-> html, entries |-> <<>>]
ObjectOutput(entries) == [isObject |-> TRUE, value |-> Html("", <<>>, <<>>), entries |-> entries]

\* What this.renderer returns (or resolves to) for locals.path = path: a site
\* with a link that occurs twice, a cycle /a <-> /b, relative links, rejected
\* links, two paths of one artifact name, and outputs with 2 and with 0 keys.
Render(path) ==
    CASE path = PathA ->
            StringOutput(Html("page a", <<PathB, PathB, <<"#", "t">>, <<"m", ":", "a">>>>, <<>>))
      [] path = PathASlash ->
            StringOutput(Html("page a/", <<<<"d">>>>, <<>>))
      [] path = PathB ->
            StringOutput(Html("page b", <<PathA, <<"/", "/", "x">>>>, <<<<"c">>>>))
      [] path = PathC ->
            ObjectOutput(<<[key |-> PathE, html |-> Html("page c1", <<<<"f">>, PathZ>>, <<>>)],
                           [key |-> PathC, html |-> Html("page c2", <<<<"g">>>>, <<>>)]>>)
      [] path = PathZ ->
            ObjectOutput(<<>>)
      [] OTHER ->
            StringOutput(Html(path, <<>>, <<>>))

\* Line 318: the output as a list of entries, in the order of Object.keys.
OutputByPath(output, outputPath) ==
    IF output.isObject THEN output.entries
    ELSE <<[key |-> outputPath, html |-> output.value]>>

\* How the renderer call for a path ends: it returns ("ok"), it throws before
\* returning ("throw"), or the promise it returns rejects ("reject").
Behaviour(path) ==
    IF options.failing.kind # "none" /\ path = options.failing.path
    THEN options.failing.kind
    ELSE "ok"

HostHtml == Html("host", <<PathC>>, <<>>)

\* The paths the plugin may be configured with.
InitialPaths == {PathA, PathASlash, PathB, PathZ, PathSlashSlashA}

Range(f) == {f[i] : i \in DOMAIN f}

\* The paths that can reach renderPaths: the configured ones and every path
\* accepted from an output entry of one of them.
RECURSIVE PathsFrom(_, _)
PathsFrom(frontier, seen) ==
    IF frontier = {} THEN seen
    ELSE PathsFrom(
            (UNION {Range(relativePathsFromHtml(e.html, e.key)) :
                e \in UNION {Range(OutputByPath(Render(p), p)) : p \in frontier}})
                \ (seen \cup frontier),
            seen \cup frontier)

KnownPaths == PathsFrom(InitialPaths, {})

KnownEntries == UNION {Range(OutputByPath(Render(p), p)) : p \in KnownPaths}

\* pathToAssetName and relativePathsFromHtml tabulated over these, so that
\* each value is computed once.
assetNameOf == [p \in KnownPaths |-> pathToAssetName(p)]

relativePathsOf == [e \in KnownEntries |-> relativePathsFromHtml(e.html, e.key)]

Configurations ==
    {o \in [crawl    : BOOLEAN,
            paths    : SeqsUpTo(InitialPaths, MaxPaths),
            renderer : {"function", "undefined"},
            failing  : [kind : {"none", "throw", "reject"}, path : {PathA, PathB}],
            host     : {<<>>, <<pathToAssetName(PathA)>>}] :
        /\ Len(o.paths) >= 1
        /\ o.failing.kind = "none" => o.failing.path = PathA
        /\ o.renderer = "undefined" => o.failing.kind = "none"}

-----------------------------------------------------------------------------
(* renderPaths *)

NewCall(path, b, i, state) ==
    [path |-> path, batch |-> b, index |-> i, state |-> state, result |-> "none",
     children |-> {}, cbThrew |-> FALSE]

\* paths.map of line 296 from element i on, up to the promise each element
\* yields: a rejected one when this.renderer is no function, otherwise the
\* renderer is called, and a throw of it ends the map.
RECURSIVE InvokeFrom(_, _, _, _)
InvokeFrom(paths, i, b, st) ==
    IF i > Len(paths) THEN st
    ELSE IF options.renderer # "function"
    THEN InvokeFrom(paths, i + 1, b,
            [st EXCEPT !.calls = Append(@, NewCall(paths[i], b, i, "rejected"))])
    ELSE IF Behaviour(paths[i]) = "throw"
    THEN [st EXCEPT !.calls = Append(@, NewCall(paths[i], b, i, "threw")),
                    !.threw = TRUE,
                    !.thrownBy = paths[i]]
    ELSE InvokeFrom(paths, i + 1, b,
            [st EXCEPT !.calls = Append(@, NewCall(paths[i], b, i, "pending"))])

\* One invocation of renderPaths up to its return (or throw): the batch is
\* recorded with the call whose output it was crawled from (0 at top level).
renderPaths(paths, parent, base, st) ==
    Only({[st2 EXCEPT !.batches[Len(st.batches) + 1].threw = st2.threw] :
            st2 \in {InvokeFrom(paths, 1, Len(st.batches) + 1,
                        [st EXCEPT !.batches =
                            Append(@, [parent |-> parent, paths |-> paths,
                                       base |-> base, threw |-> FALSE])])}})

\* compilation.assets[assetName] of line 325, read as a condition
AssetExistsNever(store, assetName) == FALSE

AssetExists(store, assetName) == assetName \in DOMAIN store

SetAssetReplacing(store, assetName, rawSource) == [n \in {assetName} |-> rawSource]

\* compilation.assets[assetName] = new RawSource(rawSource)
SetAsset(store, assetName, rawSource) ==
    [n \in DOMAIN store \cup {assetName} |-> IF n = assetName THEN rawSource ELSE store[n]]

\* Line 330: the entry is stored under the artifact name of call c.
Written(st, c, assetName, rawSource) ==
    [st EXCEPT !.assets = SetAsset(@, assetName, rawSource),
               !.assigned = Append(@, assetName),
               !.calls[c].result = "written"]

SkippedAsError(st, c) ==
    [st EXCEPT !.calls[c].cbThrew = TRUE,
               !.calls[c].result = IF @ = "none" THEN "skipped" ELSE @]

\* Line 327: the entry is skipped.
Skipped(st, c) ==
    [st EXCEPT !.calls[c].result = IF @ = "none" THEN "skipped" ELSE @]

\* Line 334 after the nested renderPaths: its promise is what the callback of
\* the entry returns; a throw of it leaves the callback of .then.
Expanded(st, c) ==
    IF st.threw
    THEN [st EXCEPT !.calls[c].cbThrew = TRUE]
    ELSE [st EXCEPT !.calls[c].children = @ \cup {Len(st.batches)}]

GenerateEntryCrawling(entry, c, assetName, st) ==
    IF AssetExists(st.assets, assetName)
    THEN Skipped(st, c)
    ELSE Only({Expanded(st1, c) :
            st1 \in {renderPaths(relativePaths, c, entry.key,
                                 Written(st, c, assetName, entry.html)) :
                relativePaths \in {relativePathsOf[entry]}}})

\* Lines 321-335 for entry i of the output of call c: skipped when the
\* artifact name exists, otherwise stored and, with crawl on, expanded.
GenerateEntry(entry, c, assetName, st) ==
    IF AssetExists(st.assets, assetName)
    THEN Skipped(st, c)
    ELSE IF options.crawl
    THEN Only({Expanded(st1, c) :
            st1 \in {renderPaths(relativePaths, c, entry.key,
                                 Written(st, c, assetName, entry.html)) :
                relativePaths \in {relativePathsOf[entry]}}})
    ELSE Written(st, c, assetName, entry.html)

AssetNameOfKey(entry, outputPath) == pathToAssetName(entry.key)

\* Line 322: the artifact name of an entry is that of the path the renderer
\* was called for.
AssetNameOfEntry(entry, outputPath) == assetNameOf[outputPath]

\* Object.keys(outputByPath).map of lines 320-337 from entry i on, for call c.
RECURSIVE GenerateFrom(_, _, _, _)
GenerateFrom(entries, i, c, st) ==
    IF i > Len(entries) \/ st.threw THEN st
    ELSE Only({GenerateFrom(entries, i + 1, c, st1) :
            st1 \in {GenerateEntry(entries[i], c, assetName, st) :
                assetName \in {AssetNameOfEntry(entries[i], st.calls[c].path)}}})

\* The callback of .then at lines 315-341 for call c, whose renderer output
\* has arrived.
ThenCallback(c, st) ==
    Only({GenerateFrom(outputByPath, 1, c, [st EXCEPT !.calls[c].state = "done"]) :
            outputByPath \in {OutputByPath(Render(st.calls[c].path), st.calls[c].path)}})

State == [assets |-> assets, calls |-> calls, batches |-> batches,
          assigned |-> assigned, threw |-> FALSE, thrownBy |-> <<>>]

-----------------------------------------------------------------------------
(* Promises *)

\* The state of the promise that paths.map yields for call c, and of the
\* Promise.all that renderPaths returns for batch b ("none": renderPaths threw).
RECURSIVE CallPromise(_, _, _)
RECURSIVE BatchPromise(_, _, _)
CallPromise(cs, bs, c) ==
    IF cs[c].state = "pending" THEN "pending"
    ELSE IF cs[c].state \in {"rejected", "threw"} \/ cs[c].cbThrew THEN "rejected"
    ELSE IF \E b \in cs[c].children : BatchPromise(cs, bs, b) = "rejected" THEN "rejected"
    ELSE IF \A b \in cs[c].children : BatchPromise(cs, bs, b) = "resolved" THEN "resolved"
    ELSE "pending"

BatchPromise(cs, bs, b) ==
    LET members == {c \in 1..Len(cs) : cs[c].batch = b} IN
    IF bs[b].threw THEN "none"
    ELSE IF \E c \in members : CallPromise(cs, bs, c) = "rejected" THEN "rejected"
    ELSE IF \A c \in members : CallPromise(cs, bs, c) = "resolved" THEN "resolved"
    ELSE "pending"

\* The promise returned by the renderPaths call of apply.
TopPromise == IF pc = "start" THEN "none" ELSE BatchPromise(calls, batches, 1)

-----------------------------------------------------------------------------
(* Actions *)

Init ==
    /\ options \in Configurations
    /\ assets = [n \in {options.host[i] : i \in 1..Len(options.host)} |-> HostHtml]
    /\ errors = <<>>
    /\ calls = <<>>
    /\ batches = <<>>
    /\ assigned = <<>>
    /\ pc = "start"
    /\ arg = <<>>
    /\ res = <<>>

\* The optimizeAssets hook of apply, lines 82-94.
apply ==
    /\ pc = "start"
    /\ \E st \in {renderPaths(options.paths, 0, <<>>, State)} :
        /\ calls' = st.calls
        /\ batches' = st.batches
        /\ errors' = IF st.threw THEN Append(errors, [path |-> st.thrownBy]) ELSE errors
    /\ pc' = "returned"
    /\ UNCHANGED <<options, assets, assigned, arg, res>>

\* The promise of call c is fulfilled and its .then callback runs.
Fulfil(c) ==
    /\ calls[c].state = "pending"
    /\ Behaviour(calls[c].path) = "ok"
    /\ \E st \in {ThenCallback(c, State)} :
        /\ calls' = st.calls
        /\ batches' = st.batches
        /\ assets' = st.assets
        /\ assigned' = st.assigned
    /\ UNCHANGED <<options, errors, pc, arg, res>>

\* The promise returned by the renderer for call c rejects.
Reject(c) ==
    /\ calls[c].state = "pending"
    /\ Behaviour(calls[c].path) = "reject"
    /\ calls' = [calls EXCEPT ![c].state = "rejected"]
    /\ UNCHANGED <<options, assets, errors, batches, assigned, pc, arg, res>>

Next ==
    \/ apply
    \/ \E c \in 1..Len(calls) : Fulfil(c)
    \/ \E c \in 1..Len(calls) : Reject(c)

Spec == Init /\ [][Next]_vars

-----------------------------------------------------------------------------
(* pathToAssetName and the link resolution on their own *)

MaxLead == 2        \* most leading separators of a path
MaxBody == 2        \* longest body of a path, without the extension
MaxApply == 3       \* applications of pathToAssetName in a row
MaxHref == 4        \* longest href

Extensions ==
    {<<>>, <<".", "h", "t", "m">>, <<".", "h", "t", "m", "l">>,
     <<".", "H", "t", "M">>, <<".", "H", "T", "M", "L">>, <<".", "h", "t">>}

PathInputs ==
    {lead \o body \o ext :
        lead \in SeqsUpTo({"/", "\\"}, MaxLead),
        body \in SeqsUpTo({"a", "/", "."}, MaxBody),
        ext \in Extensions}

HrefInputs == SeqsUpTo({"/", "a", ":", "#", "?", ".", "\\"}, MaxHref)

BasePaths == {<<>>, <<"/", "a", "b">>, <<"/", "a", "/", "b", "/">>}

\* The plugin at rest, for the specifications that apply a function alone.
Idle ==
    /\ options = [crawl |-> FALSE, paths |-> <<PathA>>, renderer |-> "function",
                  failing |-> [kind |-> "none", path |-> PathA], host |-> <<>>]
    /\ assets = <<>>
    /\ errors = <<>>
    /\ calls = <<>>
    /\ batches = <<>>
    /\ assigned = <<>>
    /\ pc = "start"

NameInit ==
    /\ Idle
    /\ arg \in PathInputs
    /\ res = <<>>

\* pathToAssetName applied to the path, then to its own result.
ApplyName ==
    /\ Len(res) < MaxApply
    /\ res' = Append(res, pathToAssetName(IF res = <<>> THEN arg ELSE res[Len(res)]))
    /\ UNCHANGED <<options, assets, errors, calls, batches, assigned, pc, arg>>

NameNext == ApplyName

NameSpec == NameInit /\ [][NameNext]_vars

HrefInit ==
    /\ Idle
    /\ arg \in [href : HrefInputs, base : BasePaths]
    /\ res = <<>>

\* The callback of lines 395-413 applied to an href.
ApplyResolveHref ==
    /\ res = <<>>
    /\ res' = <<resolveHref(arg.href, arg.base)>>
    /\ UNCHANGED <<options, assets, errors, calls, batches, assigned, pc, arg>>

HrefNext == ApplyResolveHref

HrefSpec == HrefInit /\ [][HrefNext]_vars

\* The event loop keeps running and every renderer call settles.
FairSpec == Spec /\ WF_vars(Next)

-----------------------------------------------------------------------------
(* Properties of renderPaths *)

CallIds == 1..Len(calls)

Pending == {c \in CallIds : calls[c].state = "pending"}

\* The hook has returned and no renderer call is in flight.
Quiescent == pc = "returned" /\ Pending = {}

\* The calls for which this.renderer was invoked.
Invoked == {c \in CallIds : options.renderer = "function"}

Failed == {c \in Invoked : calls[c].state \in {"threw", "rejected"}}

\* Number of entries of the renderer's output for a path.
OutputCount(path) == IF Render(path).isObject THEN Len(Render(path).entries) ELSE 1

TimesAssigned(name) == Cardinality({i \in 1..Len(assigned) : assigned[i] = name})

\* C1: no artifact name is assigned in compilation.assets more than once,
\* whatever the order in which the renderer calls in flight settle.
C1_AtMostOneWrite ==
    \A i, j \in 1..Len(assigned) : assigned[i] = assigned[j] => i = j

\* Two calls for different paths of one artifact name have both run their
\* callback: one wrote the artifact, the other was skipped.
C1_Witness ==
    \E c, d \in CallIds :
        /\ calls[c].path # calls[d].path
        /\ pathToAssetName(calls[c].path) = pathToAssetName(calls[d].path)
        /\ calls[c].state = "done" /\ calls[c].result = "written"
        /\ calls[d].state = "done" /\ calls[d].result = "skipped"
        /\ TimesAssigned(pathToAssetName(calls[c].path)) = 1

\* The step is the .then callback of call c, for an output of at least one
\* entry, with the artifact name of c in the store already.
SkipStep(c) ==
    /\ calls[c].state = "pending"
    /\ calls'[c].state = "done"
    /\ OutputCount(calls[c].path) >= 1
    /\ pathToAssetName(calls[c].path) \in DOMAIN assets

\* C2: an entry of compilation.assets keeps its content in every step, and a
\* render whose artifact name exists already is skipped without error and
\* leaves the store as it is.
C2_NoOverwriteNoDelete ==
    [][/\ \A n \in DOMAIN assets : n \in DOMAIN assets' /\ assets'[n] = assets[n]
       /\ \A c \in CallIds :
            SkipStep(c) =>
                /\ assets' = assets
                /\ errors' = errors
                /\ calls'[c].result = "skipped"
                /\ CallPromise(calls', batches', c) = "resolved"]_vars

\* A render for the artifact name the host build had put in the store was
\* skipped, and the entry still holds the host's content.
C2_Witness ==
    \E c \in CallIds :
        /\ calls[c].state = "done" /\ calls[c].result = "skipped"
        /\ pathToAssetName(calls[c].path) \in {options.host[i] : i \in 1..Len(options.host)}
        /\ assets[pathToAssetName(calls[c].path)] = HostHtml
        /\ DOMAIN assets # {pathToAssetName(calls[c].path)}

\* C3: when the renderer fails for a path of a batch, every path of the batch
\* for which it returns normally is rendered all the same, wherever it stands
\* in the list: once all calls have settled its callback has run and its
\* artifact is in the store.
C3_SiblingIsolation ==
    (Quiescent /\ options.renderer = "function") =>
        \A b \in 1..Len(batches) : \A i \in 1..Len(batches[b].paths) :
            Behaviour(batches[b].paths[i]) = "ok" =>
                /\ \E c \in CallIds :
                     calls[c].batch = b /\ calls[c].index = i /\ calls[c].state = "done"
                /\ OutputCount(batches[b].paths[i]) >= 1 =>
                     pathToAssetName(batches[b].paths[i]) \in DOMAIN assets

\* C4: once all calls have settled, compilation.errors holds exactly one
\* entry for every renderer call that threw or rejected, and the failure was
\* neither thrown out of renderPaths nor did it reject the promise it returned.
C4_EveryFailureReported ==
    (Quiescent /\ options.renderer = "function") =>
        /\ \A c \in Failed :
             Cardinality({i \in 1..Len(errors) : errors[i].path = calls[c].path})
                = Cardinality({d \in Failed : calls[d].path = calls[c].path})
        /\ ~batches[1].threw
        /\ TopPromise # "rejected"

\* C5: when the promise returned by renderPaths is settled, no renderer call
\* is pending any more.
C5_CompletionBarrier ==
    TopPromise \in {"resolved", "rejected"} => Pending = {}

HostNames == Range(options.host)

\* Every renderer call returns normally: this.renderer is a function that
\* neither throws nor rejects.
RendererNeverFails == options.renderer = "function" /\ options.failing.kind = "none"

\* The paths that link resolution accepts from a document crawled at base.
AcceptedLinks(html, base) ==
    {resolveHref(h, base).value :
        h \in {g \in Range(html.a) \cup Range(html.iframe) : resolveHref(g, base).isString}}

\* The link graph of the site: the links of the first output entry of a page.
PageLinks(path) ==
    IF OutputCount(path) = 0 THEN {}
    ELSE AcceptedLinks(OutputByPath(Render(path), path)[1].html,
                       OutputByPath(Render(path), path)[1].key)

RECURSIVE ReachableFrom(_, _)
ReachableFrom(frontier, seen) ==
    IF frontier = {} THEN seen
    ELSE ReachableFrom((UNION {PageLinks(p) : p \in frontier}) \ (seen \cup frontier),
                       seen \cup frontier)

ReachablePages == ReachableFrom(Range(options.paths), {})

CrawlEnded ==
    /\ Quiescent
    /\ TopPromise = "resolved"
    /\ \A c \in CallIds :
         OutputCount(calls[c].path) >= 1 =>
            /\ pathToAssetName(calls[c].path) \in DOMAIN assets
            /\ TimesAssigned(pathToAssetName(calls[c].path))
                 = IF pathToAssetName(calls[c].path) \in HostNames THEN 0 ELSE 1

ParentCall(c) == batches[calls[c].batch].parent

EndedWithoutFailure ==
    Quiescent /\ options.crawl /\ options.renderer = "function" /\ Failed = {}

\* C7 as stated: after a crawl without render failure the store holds the
\* artifact of every initial path and, for every artifact written, of every
\* path accepted from its html, resolved against the key it was crawled with.
C7_CrawlClosure ==
    EndedWithoutFailure =>
        /\ \A p \in Range(options.paths) : pathToAssetName(p) \in DOMAIN assets
        /\ \A c \in CallIds : calls[c].result = "written" =>
             \E b \in calls[c].children :
                \A q \in AcceptedLinks(assets[pathToAssetName(calls[c].path)], batches[b].base) :
                    pathToAssetName(q) \in DOMAIN assets

\* C7 as amended: the same for the initial and the accepted paths whose
\* renderer output has at least one entry.
C7_CrawlClosureOfOutputs ==
    EndedWithoutFailure =>
        /\ \A p \in Range(options.paths) :
             OutputCount(p) >= 1 => pathToAssetName(p) \in DOMAIN assets
        /\ \A c \in CallIds : calls[c].result = "written" =>
             \E b \in calls[c].children :
                \A q \in AcceptedLinks(assets[pathToAssetName(calls[c].path)], batches[b].base) :
                    OutputCount(q) >= 1 => pathToAssetName(q) \in DOMAIN assets

\* A crawl has ended without failure in which a written page carried an
\* accepted link in an <iframe>, next to links that were rejected.
C7_Witness ==
    /\ EndedWithoutFailure
    /\ \E c \in CallIds :
        /\ calls[c].result = "written"
        /\ \E h \in Range(assets[pathToAssetName(calls[c].path)].iframe) :
             resolveHref(h, calls[c].path).isString
        /\ \E h \in Range(assets[pathToAssetName(calls[c].path)].a) :
             ~resolveHref(h, calls[c].path).isString

\* C8: every name written by renderPaths ends in .htm or .html and does not
\* begin with a path separator.
C8_WellFormedNames ==
    \A i \in 1..Len(assigned) :
        /\ HasHtmlExtension(assigned[i])
        /\ ~IsSeparator(assigned[i][1])

\* An href that starts with "//".
IsProtocolRelative(href) == StartsWith(href, <<"/", "/">>)

\* An href that parses with a scheme.
IsSchemeQualified(href) == Len(urlParse(href, FALSE).protocol) > 0

\* An href without path component: empty, a fragment alone, a query string
\* alone.
IsPathLess(href) == Len(urlParse(href, FALSE).pathname) = 0

\* C9: link resolution rejects exactly the hrefs that are protocol-relative,
\* scheme-qualified or path-less; of the others it returns the site-absolute
\* ones as they are and the relative ones resolved against the base path.
C9_HrefClassification ==
    res # <<>> =>
        /\ ~res[1].isString <=>
             IsProtocolRelative(arg.href) \/ IsSchemeQualified(arg.href) \/ IsPathLess(arg.href)
        /\ res[1].isString =>
             IF urlParse(arg.href, FALSE).path[1] = "/"
             THEN res[1].value = urlParse(arg.href, FALSE).path
             ELSE res[1].value = urlResolve(arg.base, urlParse(arg.href, FALSE).path)

\* C10: the name of a path ends in .htm or .html, and pathToAssetName maps it
\* to itself.
C10_Idempotent ==
    Len(res) >= 2 => HasHtmlExtension(res[1]) /\ res[2] = res[1]

-----------------------------------------------------------------------------
(* Further properties of pathToAssetName *)

SlashIndexHtml == <<"/">> \o IndexHtml

\* C11 as stated: the name of a path that does not end in .htm or .html ends
\* in "/index.html".
C11_EndsInSlashIndexHtml ==
    (Len(res) >= 1 /\ ~HasHtmlExtension(arg)) => EndsWith(res[1], SlashIndexHtml)

\* C11 as amended: the name of a path that does not end in .htm or .html is
\* "index.html" or ends in "/index.html".
C11_IndexHtmlAppended ==
    (Len(res) >= 1 /\ ~HasHtmlExtension(arg)) =>
        res[1] = IndexHtml \/ EndsWith(res[1], SlashIndexHtml)

\* pathToAssetName has named a path of a leading separator and a body without
\* extension: the body, then "/index.html".
C11_Witness ==
    /\ Len(res) >= 1
    /\ Len(arg) >= 2 /\ IsSeparator(arg[1]) /\ ~IsSeparator(arg[2])
    /\ ~HasHtmlExtension(arg)
    /\ res[1] = Tail(arg) \o SlashIndexHtml

-----------------------------------------------------------------------------
(* Further properties of renderPaths *)

\* C12: when this.renderer is no function as renderPaths runs, the renderer is
\* invoked for no path, nothing is assigned in compilation.assets, and the
\* failure is an entry of compilation.errors.
C12_InvalidRendererReported ==
    (pc = "returned" /\ options.renderer # "function") =>
        /\ Invoked = {}
        /\ \A c \in CallIds : calls[c].state = "rejected" /\ calls[c].result = "none"
        /\ assigned = <<>>
        /\ DOMAIN assets = HostNames
        /\ Len(errors) >= 1

-----------------------------------------------------------------------------
(* The locals handed to the renderer, lines 298-311 *)

\* Values of user locals, written as JavaScript literals.
LocalValues == {"'x'", "1", "true", "0", "false", "''"}

\* What if (value) takes for true.
Truthy(value) == value \notin {"0", "false", "''", "null", "undefined", "NaN"}

LocalKeys == {"title", "draft", "count"}

\* this.options.locals: an object of some of the keys.
UserLocals == UNION {[keys -> LocalValues] : keys \in SUBSET LocalKeys}

\* The object literal of lines 298-303; assets and webpackStats are the values
\* renderPaths was called with.
BaseLocals(outputPath) ==
    [k \in {"path", "assets", "webpackStats"} |->
        IF k = "path" THEN outputPath ELSE k]

\* Lines 298-311: the properties of this.options.locals whose value is truthy
\* are copied over the object literal.
BuildLocals(outputPath, userLocals) ==
    LET kept == {prop \in DOMAIN userLocals : Truthy(userLocals[prop])}
    IN  [k \in DOMAIN BaseLocals(outputPath) \cup kept |->
            IF k \in kept THEN userLocals[k] ELSE BaseLocals(outputPath)[k]]

LocalsInit ==
    /\ Idle
    /\ arg \in [path : {"/", "/a"}, locals : UserLocals]
    /\ res = <<>>

\* The map callback of renderPaths builds the locals of one renderer call.
ApplyBuildLocals ==
    /\ res = <<>>
    /\ res' = <<BuildLocals(arg.path, arg.locals)>>
    /\ UNCHANGED <<options, assets, errors, calls, batches, assigned, pc, arg>>

LocalsNext == ApplyBuildLocals

LocalsSpec == LocalsInit /\ [][LocalsNext]_vars

\* C13: the locals of a renderer call hold every user-supplied local under
\* its key with its configured value, whatever the value, next to the path,
\* the assets and the build stats.
C13_ContextHoldsEveryLocal ==
    res # <<>> =>
        /\ \A prop \in DOMAIN arg.locals :
             prop \in DOMAIN res[1] /\ res[1][prop] = arg.locals[prop]
        /\ res[1]["path"] = arg.path
        /\ res[1]["assets"] = "assets"
        /\ res[1]["webpackStats"] = "webpackStats"

\* The step is the .then callback of call c, for an output of at least one
\* entry.
CallbackStep(c) ==
    /\ calls[c].state = "pending"
    /\ calls'[c].state = "done"
    /\ OutputCount(calls[c].path) >= 1

FirstEntry(path) == OutputByPath(Render(path), path)[1]

\* C14: the callback of a renderer call whose output has one key or more
\* writes one artifact at most, under the name of the path the renderer was
\* called for; the artifact holds the html of the first key, renderPaths is
\* called once, for the links of that html resolved against that key, and the
\* html of no other key is stored or crawled.
C14_MultiOutputCollapse ==
    [][\A c \in CallIds :
        CallbackStep(c) =>
            \/ /\ assets' = assets
               /\ assigned' = assigned
               /\ batches' = batches
            \/ /\ assigned' = Append(assigned, pathToAssetName(calls[c].path))
               /\ DOMAIN assets' = DOMAIN assets \cup {pathToAssetName(calls[c].path)}
               /\ assets'[pathToAssetName(calls[c].path)] = FirstEntry(calls[c].path).html
               /\ IF options.crawl
                  THEN /\ Len(batches') = Len(batches) + 1
                       /\ batches'[Len(batches')].parent = c
                       /\ batches'[Len(batches')].base = FirstEntry(calls[c].path).key
                       /\ batches'[Len(batches')].paths =
                            relativePathsFromHtml(FirstEntry(calls[c].path).html,
                                                  FirstEntry(calls[c].path).key)
                  ELSE batches' = batches]_vars

\* The renderer call for /c, whose output has the keys /e/ and /c, has
\* written c/index.html with the html of /e/ and crawled it against /e/.
C14_Witness ==
    \E c \in CallIds :
        /\ calls[c].path = PathC
        /\ calls[c].result = "written"
        /\ OutputCount(PathC) = 2
        /\ assets[pathToAssetName(PathC)] = FirstEntry(PathC).html
        /\ pathToAssetName(PathE) \notin DOMAIN assets
        /\ \E b \in calls[c].children :
            /\ batches[b].base = PathE
            /\ \E i \in 1..Len(batches[b].paths) : batches[b].paths[i] = PathE \o <<"f">>

\* The state in which the hook of apply starts.
InitialState ==
    [assets |-> [n \in HostNames |-> HostHtml], calls |-> <<>>, batches |-> <<>>,
     assigned |-> <<>>, threw |-> FALSE, thrownBy |-> <<>>]

\* The pending call a sequential rendering settles next: the first of the
\* list crawled last, so that a page and all it links to are done before the
\* next path of its list.
NextInSequence(st) ==
    CHOOSE c \in 1..Len(st.calls) :
        /\ st.calls[c].state = "pending"
        /\ \A d \in 1..Len(st.calls) :
            st.calls[d].state = "pending" =>
                \/ st.calls[d].batch < st.calls[c].batch
                \/ st.calls[d].batch = st.calls[c].batch
                   /\ st.calls[d].index >= st.calls[c].index

\* The store a sequential rendering ends with.
RECURSIVE SequentialFrom(_)
SequentialFrom(st) ==
    IF \A c \in 1..Len(st.calls) : st.calls[c].state # "pending"
    THEN st.assets
    ELSE Only({SequentialFrom(st1) : st1 \in {ThenCallback(NextInSequence(st), st)}})

SequentialStore ==
    SequentialFrom(renderPaths(options.paths, 0, <<>>, InitialState))

\* C15: with a renderer that returns normally, the store at the end of a run
\* is the store of the sequential rendering, whatever the order in which the
\* renderer calls settled.
C15_ScheduleIndependence ==
    (Quiescent /\ RendererNeverFails) => assets = SequentialStore

\* The renderPaths calls made by the crawl: all but the one of apply.
Expansions == {b \in 1..Len(batches) : batches[b].parent # 0}

\* C16: renderPaths is called for the links of an output only with crawl on
\* and from the call that has just written the output: never from a call that
\* was skipped or has failed, and once per artifact written at most; with
\* crawl off the renderer is called for the configured paths alone.
C16_ExpansionOnlyAfterWrite ==
    /\ \A b \in Expansions :
        /\ options.crawl
        /\ batches[b].parent \in CallIds
        /\ calls[batches[b].parent].state = "done"
        /\ calls[batches[b].parent].result = "written"
        /\ \A b2 \in Expansions : batches[b2].parent = batches[b].parent => b2 = b
    /\ Cardinality(Expansions) <= Len(assigned)
    /\ ~options.crawl =>
        \A c \in CallIds : calls[c].batch = 1 /\ calls[c].path \in Range(options.paths)

\* With crawl on, one call has written its page and had its links crawled,
\* and a call for a name that existed was skipped and crawled nothing.
C16_Witness ==
    /\ options.crawl
    /\ \E c, d \in CallIds :
        /\ calls[c].result = "written"
        /\ \E b \in Expansions : batches[b].parent = c /\ Len(batches[b].paths) >= 1
        /\ calls[d].state = "done" /\ calls[d].result = "skipped"
        /\ Len(relativePathsFromHtml(FirstEntry(calls[d].path).html,
                                     FirstEntry(calls[d].path).key)) >= 1
        /\ \A b \in Expansions : batches[b].parent # d

-----------------------------------------------------------------------------
(* Further properties of the link resolution *)

Contains(s, ch) == \E i \in 1..Len(s) : s[i] = ch

\* C17: the path that link resolution returns for an href that has a path
\* holds neither the query nor the fragment of the href: no "?" and no "#".
C17_NoQueryNoFragment ==
    (res # <<>> /\ res[1].isString /\ ~IsPathLess(arg.href)) =>
        ~Contains(res[1].value, "?") /\ ~Contains(res[1].value, "#")

-----------------------------------------------------------------------------
(* The hook of apply and the renderer calls *)

\* C18: the optimizeAssets step in which renderPaths was started is not over
\* while a renderer call is pending, so everything renderPaths writes is in
\* compilation.assets when the step is over.
C18_BuildStepWaits ==
    pc = "returned" => Pending = {}

\* The number of elements of the path lists of the renderPaths calls 1..b.
RECURSIVE ListedPaths(_)
ListedPaths(b) == IF b = 0 THEN 0 ELSE Len(batches[b].paths) + ListedPaths(b - 1)

\* C19: with a renderer that is a function, the renderer has been invoked
\* once for every element of every list of paths renderPaths was called with,
\* so that the invocations number the configured paths plus the links
\* accepted over all expansions; the existence check of a call comes only
\* after its renderer call has settled.
C19_RenderBeforeCheck ==
    (pc = "returned" /\ options.renderer = "function") =>
        /\ \A b \in 1..Len(batches) : \A i \in 1..Len(batches[b].paths) :
             Cardinality({c \in Invoked : /\ calls[c].batch = b
                                          /\ calls[c].index = i
                                          /\ calls[c].path = batches[b].paths[i]}) = 1
        /\ Cardinality(Invoked) = ListedPaths(Len(batches))
        /\ \A c \in CallIds : calls[c].state # "done" => calls[c].result = "none"

====
